---------------------------- MODULE Spec2Model ----------------------------
(***************************************************************************)
(* Model of bot.py: a Telegram bot that copies one private message to      *)
(* every registered channel (/broadcast), records each copy in SQLite and  *)
(* later deletes the recorded copies (/delete).                            *)
(*                                                                         *)
(* Handlers are modelled at the granularity of their Transport calls.      *)
(* The Application is built with the default dispatcher, which runs one    *)
(* handler at a time: a handler starts only when no other one is running.  *)
(* Spec is the bot in normal operation; SpecCrash adds process restarts;    *)
(* SpecConc is the bot with concurrent update processing switched on, where *)
(* handlers of different commands interleave at their awaits; SpecLive is   *)
(* Spec with the event loop running every handler that can take a step.     *)
(***************************************************************************)
EXTENDS Integers, Sequences, FiniteSets, TLC

\* ------------------------------------------------------------------ bounds
MaxChannels == 2      \* channel ids that can ever be forwarded for registration
MaxChats == 2         \* private chats that talk to the bot
MaxMid == 1           \* message ids a command can reply to, per private chat
MaxClock == 2         \* last clock tick of a run
TicksPerSecond == 2   \* clock resolution: ticks per wall-clock second
MaxBroadcasts == 2    \* /broadcast calls that get past the reply check

\* --------------------------------------------------------------- constants
REGISTRATION_CHAT_ID == 100

ChannelIds == 1..MaxChannels
Chats == 101..(100 + MaxChats)
Mids == 1..MaxMid
NoMsg == 0            \* update.message.reply_to_message is None / forward_from_chat is None

VARIABLES
    channels,    \* table channels: its channel_id rows, in key order
    broadcasts,  \* table broadcasts: committed rows, in rowid (AUTOINCREMENT) order
    clock,       \* time.time(), in ticks
    nextMsgId,   \* Transport: per channel, the message id the next copy gets
    bpc, bc,     \* broadcast_cmd: position and locals
    dpc, dc,     \* delete_cmd: position and locals
    log,         \* history: one entry per broadcast_cmd call that assigned a batch_id
    retracted    \* history: origins whose retraction resolved a batch and completed

vars == <<channels, broadcasts, clock, nextMsgId, bpc, bc, dpc, dc, log, retracted>>

\* ------------------------------------------------------------ pure helpers
Min(S) == CHOOSE x \in S : \A y \in S : x <= y

RECURSIVE SortedSeq(_)
\* the rows of an INTEGER PRIMARY KEY table are kept, and scanned, in key order
SortedSeq(S) == IF S = {} THEN <<>> ELSE <<Min(S)>> \o SortedSeq(S \ {Min(S)})

RECURSIVE Str(_)
\* str(n) for n >= 0: the decimal digits, most significant first
Str(n) == IF n < 10 THEN <<n>> ELSE Str(n \div 10) \o <<n % 10>>

\* int(time.time()): whole seconds
IntTime(t) == t \div TicksPerSecond

\* batch_id = str(int(time.time()))
NewBatchId(t) == Str(IntTime(t))

RECURSIVE SelectSeq2(_, _)
SelectSeq2(s, keep) ==
    IF s = <<>> THEN <<>>
    ELSE (IF keep[1] THEN <<Head(s)>> ELSE <<>>) \o SelectSeq2(Tail(s), Tail(keep))

Range(s) == {s[k] : k \in 1..Len(s)}

\* mutant: the table has no primary key and the row is always added
InsertAlways(table, cid) == Append(table, cid)

\* INSERT OR IGNORE INTO channels: channel_id is the primary key, so a row whose
\* key is already there is dropped; the table is kept in key order
InsertOrIgnore(table, cid) ==
    IF cid \in Range(table) THEN table ELSE SortedSeq(Range(table) \cup {cid})

Row(bid, chat, mid, ch, chMid) ==
    [batch_id |-> bid, private_chat_id |-> chat, private_message_id |-> mid,
     channel_id |-> ch, channel_message_id |-> chMid]

\* mutant: the lookup forgets the chat and matches the message id alone
MatchesMessageOnly(r, chat, mid) == r.private_message_id = mid

\* SELECT batch_id ... WHERE private_chat_id = ? AND private_message_id = ?
MatchesOrigin(r, chat, mid) == r.private_chat_id = chat /\ r.private_message_id = mid

\* the rowids of the rows the first SELECT of delete_cmd returns
OriginRows(table, chat, mid) ==
    {k \in 1..Len(table) : MatchesOrigin(table[k], chat, mid)}

\* cur.fetchone(): the first row of the scan, i.e. the one with the lowest rowid
FetchOne(S) == Min(S)

\* mutant: the destination of the k-th member is taken from the k-th row of the
\* registry as it is now, not from the member row
BatchEntriesPositional(table, bid) ==
    LET keep == [k \in 1..Len(table) |-> table[k].batch_id = bid]
        rows == SelectSeq2(table, keep)
    IN  [k \in 1..Len(rows) |->
            <<IF k <= Len(channels) THEN channels[k] ELSE rows[k].channel_id,
              rows[k].channel_message_id>>]

\* SELECT channel_id, channel_message_id FROM broadcasts WHERE batch_id = ?
BatchEntries(table, bid) ==
    LET keep == [k \in 1..Len(table) |-> table[k].batch_id = bid]
        rows == SelectSeq2(table, keep)
    IN  [k \in 1..Len(rows) |-> <<rows[k].channel_id, rows[k].channel_message_id>>]

\* mutant: every handler uses one shared connection, so a reader sees the rows of
\* a transaction that is still open
VisibleRowsShared(table, pending) == table \o pending

\* what a SELECT on delete_cmd's own connection sees of the broadcasts table while
\* another connection holds uncommitted rows: the committed rows
VisibleRows(table, pending) == table

\* ------------------------------------------------------------------- state
NoReply == [kind |-> "none"]

\* locals of broadcast_cmd; pending holds the rows inserted in the open transaction,
\* copies the copy_message calls made so far: the channel and the message id
\* returned (NoMsg when the call raised)
IdleB == [chat |-> 0, orig |-> 0, batch_id |-> <<>>, channels |-> <<>>, i |-> 0,
          successes |-> 0, failures |-> 0, pending |-> <<>>, copies |-> <<>>,
          reply |-> NoReply]

\* locals of delete_cmd; calls holds the delete_message calls made so far (the
\* entry and whether the call returned), again whether an earlier retraction of
\* the same origin had resolved a batch and completed
IdleD == [chat |-> 0, orig |-> 0, batch_id |-> <<>>, entries |-> <<>>, i |-> 0,
          deleted |-> 0, not_found |-> 0, calls |-> <<>>, again |-> FALSE,
          reply |-> NoReply]

\* the dispatcher hands over the next update only when no handler is running
NoHandler == bpc = "idle" /\ dpc = "idle"

Init ==
    /\ channels = <<>>
    /\ broadcasts = <<>>
    /\ clock = 0
    /\ nextMsgId = [c \in ChannelIds |-> 1]
    /\ bpc = "idle" /\ bc = IdleB
    /\ dpc = "idle" /\ dc = IdleD
    /\ log = <<>>
    /\ retracted = {}

\* ------------------------------------------------------------------- clock
\* time passes; only broadcast_cmd's first step reads the clock, so the ticks
\* that fall inside a running handler are taken when it has ended
Tick ==
    /\ NoHandler
    /\ clock < MaxClock
    /\ clock' = clock + 1
    /\ UNCHANGED <<channels, broadcasts, nextMsgId, bpc, bc, dpc, dc, log, retracted>>

\* -------------------------------------------------------- register_forward
\* the handler, dispatched when free holds
RegisterForwardWhen(free) ==
    /\ free
    /\ \E chatId \in Chats \cup {REGISTRATION_CHAT_ID}, src \in ChannelIds \cup {NoMsg},
          stored \in BOOLEAN :
        /\ channels' = IF chatId = REGISTRATION_CHAT_ID /\ src # NoMsg /\ stored
                       THEN InsertOrIgnore(channels, src)
                       ELSE channels
    /\ UNCHANGED <<broadcasts, clock, nextMsgId, bpc, bc, dpc, dc, log, retracted>>

RegisterForward == RegisterForwardWhen(NoHandler)

\* ----------------------------------------------------------- broadcast_cmd
\* mutant: the total is taken from the loop index, which ends one past the list
BroadcastSummaryByIndex(b) ==
    [kind |-> "summary", success |-> b.successes, failed |-> b.failures,
     total |-> b.i]

\* reply_text of lines 116-121
BroadcastSummary(b) ==
    [kind |-> "summary", success |-> b.successes, failed |-> b.failures,
     total |-> Len(b.channels)]

\* try body ran to its end: the row is inserted in the open transaction
CopyRecorded(b, ch, chMid) ==
    [b EXCEPT !.pending = Append(@, Row(b.batch_id, b.chat, b.orig, ch, chMid)),
              !.successes = @ + 1,
              !.i = @ + 1,
              !.copies = Append(@, [channel_id |-> ch, message_id |-> chMid])]

\* mutant: the exception leaves the loop instead of being handled inside it
CopyFailedAborts(b, ch, chMid) ==
    [b EXCEPT !.failures = @ + 1,
              !.i = Len(b.channels) + 1,
              !.copies = Append(@, [channel_id |-> ch, message_id |-> chMid])]

\* mutant: a failed destination is tried again before the loop moves on
CopyFailedRetries(b, ch, chMid) ==
    [b EXCEPT !.failures = @ + 1,
              !.copies = Append(@, [channel_id |-> ch, message_id |-> chMid])]

\* except Exception: copy_message raised (chMid = NoMsg) or the INSERT raised
\* after the copy was made; log, count, go on
CopyFailed(b, ch, chMid) ==
    [b EXCEPT !.failures = @ + 1,
              !.i = @ + 1,
              !.copies = Append(@, [channel_id |-> ch, message_id |-> chMid])]

\* SELECT channel_id FROM channels, fetchall: the rows in key order
SelectChannels(table) == table

\* mutant: the loop reads the registry again at every iteration
CurrentChannelReread(b) == channels[b.i]

\* for ch in channels: the element of the list read at the start
CurrentChannel(b) == b.channels[b.i]

\* the handler, dispatched when free holds
BroadcastStartWhen(free) ==
    /\ free
    /\ \E chat \in Chats, reply \in Mids \cup {NoMsg} :
        IF reply = NoMsg
        THEN /\ bpc' = "done"
             /\ bc' = [IdleB EXCEPT !.reply = [kind |-> "usage"]]
             /\ log' = log
        ELSE /\ Len(log) < MaxBroadcasts
             /\ bpc' = "loop"
             /\ bc' = [IdleB EXCEPT !.chat = chat, !.orig = reply,
                                    !.batch_id = NewBatchId(clock),
                                    !.channels = SelectChannels(channels),
                                    !.i = 1]
             /\ log' = Append(log, [chat |-> chat, mid |-> reply,
                                    batch_id |-> NewBatchId(clock),
                                    total |-> Len(SelectChannels(channels)),
                                    written |-> {}])
    /\ UNCHANGED <<channels, broadcasts, clock, nextMsgId, dpc, dc, retracted>>

BroadcastStart == BroadcastStartWhen(NoHandler)

BroadcastCopy ==
    /\ bpc = "loop"
    /\ bc.i <= Len(bc.channels)
    /\ LET ch == CurrentChannel(bc)
           chMid == nextMsgId[ch]
       IN  \E outcome \in {"ok", "copy_failed", "insert_failed"} :
            /\ bc' = CASE outcome = "ok" -> CopyRecorded(bc, ch, chMid)
                       [] outcome = "copy_failed" -> CopyFailed(bc, ch, NoMsg)
                       [] outcome = "insert_failed" -> CopyFailed(bc, ch, chMid)
            /\ nextMsgId' = IF outcome = "copy_failed" THEN nextMsgId
                            ELSE [nextMsgId EXCEPT ![ch] = @ + 1]
    /\ UNCHANGED <<channels, broadcasts, clock, bpc, dpc, dc, log, retracted>>

\* db.commit() of line 114; if it raises, the handler ends without a reply and
\* closing the connection rolls the transaction back
BroadcastCommit ==
    /\ bpc = "loop"
    /\ bc.i > Len(bc.channels)
    /\ \E committed \in BOOLEAN :
        IF committed
        THEN /\ broadcasts' = broadcasts \o bc.pending
             /\ bpc' = "reply"
             /\ bc' = bc
             /\ log' = [log EXCEPT ![Len(log)].written =
                            {<<r.channel_id, r.channel_message_id>> : r \in Range(bc.pending)}]
             /\ retracted' = IF bc.pending = <<>> THEN retracted
                             ELSE retracted \ {<<bc.chat, bc.orig>>}
        ELSE /\ bpc' = "idle"
             /\ bc' = IdleB
             /\ UNCHANGED <<broadcasts, log, retracted>>
    /\ UNCHANGED <<channels, clock, nextMsgId, dpc, dc>>

BroadcastReply ==
    /\ bpc = "reply"
    /\ bpc' = "done"
    /\ bc' = [bc EXCEPT !.reply = BroadcastSummary(bc)]
    /\ UNCHANGED <<channels, broadcasts, clock, nextMsgId, dpc, dc, log, retracted>>

BroadcastReturn ==
    /\ bpc = "done"
    /\ bpc' = "idle"
    /\ bc' = IdleB
    /\ UNCHANGED <<channels, broadcasts, clock, nextMsgId, dpc, dc, log, retracted>>

\* -------------------------------------------------------------- delete_cmd
\* reply_text of lines 157-162
DeleteSummary(d) ==
    [kind |-> "summary", deleted |-> d.deleted, not_found |-> d.not_found,
     total |-> Len(d.entries)]

DeleteCall(entry, ok) == [channel_id |-> entry[1], message_id |-> entry[2], ok |-> ok]

DeleteSucceeded(d) ==
    [d EXCEPT !.deleted = @ + 1, !.i = @ + 1,
              !.calls = Append(@, DeleteCall(d.entries[d.i], TRUE))]

\* mutant: the exception leaves the loop instead of being handled inside it
DeleteFailedAborts(d) ==
    [d EXCEPT !.not_found = @ + 1, !.i = Len(d.entries) + 1,
              !.calls = Append(@, DeleteCall(d.entries[d.i], FALSE))]

\* except Exception: count as not found, go on
DeleteFailed(d) ==
    [d EXCEPT !.not_found = @ + 1, !.i = @ + 1,
              !.calls = Append(@, DeleteCall(d.entries[d.i], FALSE))]

\* the batch the lookup by origin resolves to
ResolveBatch(table, chat, mid) == table[FetchOne(OriginRows(table, chat, mid))].batch_id

\* the handler, dispatched when free holds
DeleteStartWhen(free) ==
    /\ free
    /\ \E chat \in Chats, reply \in Mids \cup {NoMsg} :
        IF reply = NoMsg
        THEN /\ dpc' = "done"
             /\ dc' = [IdleD EXCEPT !.reply = [kind |-> "usage"]]
        ELSE LET d0 == [IdleD EXCEPT !.chat = chat, !.orig = reply,
                                     !.again = (<<chat, reply>> \in retracted)]
                 seen == VisibleRows(broadcasts, bc.pending)
             IN  IF OriginRows(seen, chat, reply) = {}
                 THEN /\ dpc' = "done"
                      /\ dc' = [d0 EXCEPT !.reply = [kind |-> "not_found"]]
                 ELSE /\ dpc' = "loop"
                      /\ dc' = [d0 EXCEPT
                                  !.batch_id = ResolveBatch(seen, chat, reply),
                                  !.entries = BatchEntries(seen,
                                                 ResolveBatch(seen, chat, reply)),
                                  !.i = 1]
    /\ UNCHANGED <<channels, broadcasts, clock, nextMsgId, bpc, bc, log, retracted>>

DeleteStart == DeleteStartWhen(NoHandler)

DeleteMessage ==
    /\ dpc = "loop"
    /\ dc.i <= Len(dc.entries)
    /\ \E ok \in BOOLEAN : dc' = IF ok THEN DeleteSucceeded(dc) ELSE DeleteFailed(dc)
    /\ UNCHANGED <<channels, broadcasts, clock, nextMsgId, bpc, bc, dpc, log, retracted>>

\* mutant: the rows of the batch are deleted from the table before the reply
DeleteReplyPurges ==
    /\ dpc = "loop"
    /\ dc.i > Len(dc.entries)
    /\ dpc' = "done"
    /\ dc' = [dc EXCEPT !.reply = DeleteSummary(dc)]
    /\ broadcasts' = SelectSeq2(broadcasts,
                         [k \in 1..Len(broadcasts) |-> broadcasts[k].batch_id # dc.batch_id])
    /\ retracted' = retracted \cup {<<dc.chat, dc.orig>>}
    /\ UNCHANGED <<channels, clock, nextMsgId, bpc, bc, log>>

DeleteReply ==
    /\ dpc = "loop"
    /\ dc.i > Len(dc.entries)
    /\ dpc' = "done"
    /\ dc' = [dc EXCEPT !.reply = DeleteSummary(dc)]
    /\ retracted' = retracted \cup {<<dc.chat, dc.orig>>}
    /\ UNCHANGED <<channels, broadcasts, clock, nextMsgId, bpc, bc, log>>

DeleteReturn ==
    /\ dpc = "done"
    /\ dpc' = "idle"
    /\ dc' = IdleD
    /\ UNCHANGED <<channels, broadcasts, clock, nextMsgId, bpc, bc, log, retracted>>

\* ------------------------------------------------------------------ restart
\* the process dies while a handler runs and is started again: the tables are
\* kept (CREATE TABLE IF NOT EXISTS), an open transaction is lost
Restart ==
    /\ ~NoHandler
    /\ bpc' = "idle" /\ bc' = IdleB
    /\ dpc' = "idle" /\ dc' = IdleD
    /\ UNCHANGED <<channels, broadcasts, clock, nextMsgId, log, retracted>>

Next ==
    \/ Tick
    \/ RegisterForward
    \/ BroadcastStart
    \/ BroadcastCopy
    \/ BroadcastCommit
    \/ BroadcastReply
    \/ BroadcastReturn
    \/ DeleteStart
    \/ DeleteMessage
    \/ DeleteReply
    \/ DeleteReturn

Spec == Init /\ [][Next]_vars

NextCrash == Restart \/ Next

SpecCrash == Init /\ [][NextCrash]_vars

\* concurrent update processing: a command is dispatched as soon as no handler of
\* the same command is running, and a forward is registered at any time
RegisterForwardConc == RegisterForwardWhen(TRUE)

BroadcastStartConc == BroadcastStartWhen(bpc = "idle")

DeleteStartConc == DeleteStartWhen(dpc = "idle")

NextConc ==
    \/ Tick
    \/ RegisterForwardConc
    \/ BroadcastStartConc
    \/ BroadcastCopy
    \/ BroadcastCommit
    \/ BroadcastReply
    \/ BroadcastReturn
    \/ DeleteStartConc
    \/ DeleteMessage
    \/ DeleteReply
    \/ DeleteReturn

SpecConc == Init /\ [][NextConc]_vars

\* the event loop resumes a handler whose awaited call has returned
SpecLive ==
    /\ Spec
    /\ WF_vars(BroadcastCopy)
    /\ WF_vars(BroadcastCommit)
    /\ WF_vars(BroadcastReply)
    /\ WF_vars(BroadcastReturn)
    /\ WF_vars(DeleteMessage)
    /\ WF_vars(DeleteReply)
    /\ WF_vars(DeleteReturn)

\* ------------------------------------------------------------------ typing
TypeOK ==
    /\ Range(channels) \subseteq ChannelIds
    /\ clock \in 0..MaxClock
    /\ bpc \in {"idle", "loop", "reply", "done"}
    /\ dpc \in {"idle", "loop", "done"}
    /\ Len(log) <= MaxBroadcasts

\* ------------------------------------------------------------------ claims
Origin(chat, mid) == <<chat, mid>>

\* the rowids of the member rows that carry batch id bid
RowsOfBatch(bid) == {k \in 1..Len(broadcasts) : broadcasts[k].batch_id = bid}

BroadcastReplied == bpc = "done" /\ bc.reply.kind = "summary"

RetractionReplied == dpc = "done" /\ dc.reply.kind = "summary"

\* the (destination, remote message id) pairs the running retraction invoked delete on
DeleteTargets == {<<c.channel_id, c.message_id>> : c \in Range(dc.calls)}

\* C1: when a broadcast has replied, success + failed = total = |registry|, and the
\* number of stored rows carrying its batch id is the reported success count.
C1_BroadcastCounts ==
    BroadcastReplied =>
        /\ bc.reply.success + bc.reply.failed = bc.reply.total
        /\ bc.reply.total = Len(channels)
        /\ Cardinality(RowsOfBatch(bc.batch_id)) = bc.reply.success

\* C2: a retraction of an origin whose earlier retraction resolved a batch and
\* completed (no broadcast of that origin in between) reports "no record found"
\* and makes no delete call.
C2_SecondRetractionNotFound ==
    (dpc # "idle" /\ dc.again) =>
        /\ dpc = "done"
        /\ dc.reply.kind = "not_found"
        /\ dc.calls = <<>>

\* C3: when a retraction has replied and its origin was broadcast by exactly one
\* call, the pairs it invoked delete on are exactly the member records that call wrote.
C3_RoundTrip ==
    RetractionReplied =>
        \A k \in 1..Len(log) :
            (/\ Origin(log[k].chat, log[k].mid) = Origin(dc.chat, dc.orig)
             /\ \A j \in 1..Len(log) :
                    Origin(log[j].chat, log[j].mid) = Origin(dc.chat, dc.orig) => j = k)
            => DeleteTargets = log[k].written

\* C4: no two broadcast calls are assigned the same batch id.
C4_BatchIdsDistinct ==
    \A j, k \in 1..Len(log) : j # k => log[j].batch_id # log[k].batch_id

\* C5: all stored rows that share a batch id carry the same origin pair.
C5_BatchHasOneOrigin ==
    \A j, k \in 1..Len(broadcasts) :
        broadcasts[j].batch_id = broadcasts[k].batch_id =>
            Origin(broadcasts[j].private_chat_id, broadcasts[j].private_message_id)
              = Origin(broadcasts[k].private_chat_id, broadcasts[k].private_message_id)

\* the copies of the running broadcast that Transport reported successful
CopiesMade == {<<c.channel_id, c.message_id>> :
                   c \in {x \in Range(bc.copies) : x.message_id # NoMsg}}

\* the member rows in the open transaction of the running broadcast
PendingPairs == {<<r.channel_id, r.channel_message_id>> : r \in Range(bc.pending)}

\* C6: when a broadcast has replied, the member records it wrote are exactly its
\* successful copies, each stored with the batch id, the origin, the destination
\* and the remote id the copy returned.
C6_RecordIffCopied ==
    BroadcastReplied =>
        /\ log[Len(log)].written = CopiesMade
        /\ \A p \in CopiesMade :
              \E k \in 1..Len(broadcasts) :
                  broadcasts[k] = Row(bc.batch_id, bc.chat, bc.orig, p[1], p[2])

\* C7: in a broadcast the copy calls made so far go through the registry in key
\* order without a gap or a repeat, whatever their outcomes; once the loop has
\* ended every registered destination was attempted; every attempt was counted
\* once, as a success (with its row) or as a failure.
C7_FanOutNeverAborts ==
    (bpc \in {"loop", "reply"} \/ BroadcastReplied) =>
        LET att == [k \in 1..Len(bc.copies) |-> bc.copies[k].channel_id]
        IN  /\ \A j, k \in 1..Len(att) : j < k => att[j] < att[k]
            /\ Range(att) \subseteq Range(channels)
            /\ \A c \in Range(channels), k \in 1..Len(att) :
                  c < att[k] => c \in Range(att)
            /\ bpc # "loop" => Range(att) = Range(channels)
            /\ bc.successes = Cardinality(PendingPairs)
            /\ bc.failures = Cardinality({k \in 1..Len(bc.copies) :
                    <<bc.copies[k].channel_id, bc.copies[k].message_id>> \notin PendingPairs})
            /\ bc.successes + bc.failures = Len(att)

\* C7 witness: a broadcast over two destinations has replied; the first copy
\* failed and the second was still made and succeeded.
C7_Witness ==
    /\ BroadcastReplied
    /\ Len(bc.copies) = 2
    /\ bc.copies[1].message_id = NoMsg
    /\ bc.copies[2].message_id # NoMsg
    /\ bc.reply.success = 1 /\ bc.reply.failed = 1

\* C8: in a retraction that resolved a batch the delete calls made so far are on
\* distinct member rows of that batch and each was counted once; once it has
\* replied, delete was invoked on every member row of the batch and
\* deleted + not_found = total = the number of member rows of the batch.
C8_RetractionNeverAborts ==
    (dpc = "loop" \/ RetractionReplied) =>
        LET members == {<<broadcasts[k].channel_id, broadcasts[k].channel_message_id>> :
                           k \in RowsOfBatch(dc.batch_id)}
        IN  /\ DeleteTargets \subseteq members
            /\ \A j, k \in 1..Len(dc.calls) :
                  j # k => <<dc.calls[j].channel_id, dc.calls[j].message_id>>
                             # <<dc.calls[k].channel_id, dc.calls[k].message_id>>
            /\ dc.deleted = Cardinality({k \in 1..Len(dc.calls) : dc.calls[k].ok})
            /\ dc.not_found = Cardinality({k \in 1..Len(dc.calls) : ~dc.calls[k].ok})
            /\ RetractionReplied =>
                  /\ DeleteTargets = members
                  /\ dc.reply.deleted + dc.reply.not_found = dc.reply.total
                  /\ dc.reply.total = Cardinality(RowsOfBatch(dc.batch_id))

\* C8 witness: a retraction of a two-member batch has replied; the first delete
\* failed and the second was still made and succeeded.
C8_Witness ==
    /\ RetractionReplied
    /\ Len(dc.calls) = 2
    /\ ~dc.calls[1].ok
    /\ dc.calls[2].ok
    /\ dc.reply.deleted = 1 /\ dc.reply.not_found = 1

\* no broadcast call has written a member record for this origin
NeverRecorded(chat, mid) ==
    \A k \in 1..Len(log) :
        Origin(log[k].chat, log[k].mid) = Origin(chat, mid) => log[k].written = {}

\* a retraction of an origin that was never recorded is running or has replied
RetractingUnknown == dpc # "idle" /\ dc.orig # NoMsg /\ NeverRecorded(dc.chat, dc.orig)

\* C9: a retraction of an origin that no broadcast has recorded ends at once with
\* "no record found" and no delete call, and the step that handles it leaves
\* both tables as they were.
C9_UnknownOriginNotFound ==
    /\ [](RetractingUnknown =>
            (dpc = "done" /\ dc.reply.kind = "not_found" /\ dc.calls = <<>>))
    /\ [][RetractingUnknown' => (broadcasts' = broadcasts /\ channels' = channels)]_vars

\* C9 witness: the store holds member records of another origin, and a retraction
\* of an origin never recorded has replied "no record found".
C9_Witness ==
    /\ RetractingUnknown
    /\ dpc = "done"
    /\ dc.reply.kind = "not_found"
    /\ broadcasts # <<>>

Max(S) == CHOOSE x \in S : \A y \in S : y <= x

\* the broadcast calls of this origin that wrote at least one member record
RecordedCalls(chat, mid) ==
    {k \in 1..Len(log) :
        Origin(log[k].chat, log[k].mid) = Origin(chat, mid) /\ log[k].written # {}}

\* C10: a retraction that resolved a batch resolved the batch of the latest
\* broadcast of its origin.
C10_ResolvesMostRecent ==
    (dpc = "loop" \/ RetractionReplied) =>
        dc.batch_id = log[Max(RecordedCalls(dc.chat, dc.orig))].batch_id

\* C11: a broadcast never goes on after an INSERT failed: while the handler runs,
\* every copy made has its row in the transaction, and the failure counter counts
\* only the copy calls that raised.
C11_StoreErrorsPropagate ==
    bpc # "idle" =>
        /\ CopiesMade \subseteq PendingPairs
        /\ bc.failures = Cardinality({k \in 1..Len(bc.copies) :
                                         bc.copies[k].message_id = NoMsg})

\* C12: the registry never holds two rows with the same destination id, however
\* often a destination is registered.
C12_RegistryHasNoDuplicate ==
    \A j, k \in 1..Len(channels) : j # k => channels[j] # channels[k]

\* C12 witness: destination 1 is registered alone and the dispatcher is free, so
\* register_forward runs for destination 1 again and leaves this very state.
C12_Witness ==
    /\ NoHandler
    /\ channels = <<1>>
    /\ ENABLED RegisterForward

\* the (destination, remote message id) pairs of the member rows in the store
StoredPairs == {<<r.channel_id, r.channel_message_id>> : r \in Range(broadcasts)}

\* C13: a restart loses no member row, and every copy the running broadcast made
\* before the restart has its member row in the store after it.
C13_CopiesSurviveRestart ==
    [][Restart => (/\ broadcasts' = broadcasts
                   /\ CopiesMade \subseteq StoredPairs')]_vars

\* the origin of the running retraction has been broadcast
RetractingBroadcastOrigin ==
    /\ dpc # "idle"
    /\ dc.orig # NoMsg
    /\ \E k \in 1..Len(log) : Origin(log[k].chat, log[k].mid) = Origin(dc.chat, dc.orig)

\* C14: while the registry is empty, a broadcast that has replied made no copy
\* call, wrote no member row and reported success 0, failed 0, total 0; and a
\* retraction of an origin broadcast so far finds no record and deletes nothing.
C14_EmptyRegistryBroadcast ==
    channels = <<>> =>
        /\ broadcasts = <<>>
        /\ BroadcastReplied =>
              /\ bc.copies = <<>>
              /\ log[Len(log)].written = {}
              /\ bc.reply = [kind |-> "summary", success |-> 0, failed |-> 0, total |-> 0]
        /\ RetractingBroadcastOrigin =>
              (dpc = "done" /\ dc.reply.kind = "not_found" /\ dc.calls = <<>>)

\* C14 witness: the registry is empty, an origin was broadcast over the empty
\* registry, and the retraction of that origin has replied "no record found".
C14_Witness ==
    /\ channels = <<>>
    /\ RetractingBroadcastOrigin
    /\ dpc = "done"
    /\ dc.reply.kind = "not_found"
    /\ \E k \in 1..Len(log) :
          Origin(log[k].chat, log[k].mid) = Origin(dc.chat, dc.orig) /\ log[k].total = 0

\* the broadcast calls that were assigned batch id bid
CallsOfBatch(bid) == {k \in 1..Len(log) : log[k].batch_id = bid}

\* C15: the pairs a retraction invokes delete on are the pairs the broadcasts of
\* the resolved batch id wrote when they ran, whatever the registry holds now.
C15_TargetsFixedByRecords ==
    RetractionReplied =>
        DeleteTargets = UNION {log[k].written : k \in CallsOfBatch(dc.batch_id)}

\* C15 witness: a retraction has replied after deleting at least one member, and
\* the registry now holds more destinations than it did at any broadcast of the
\* resolved batch id.
C15_Witness ==
    /\ RetractionReplied
    /\ DeleteTargets # {}
    /\ \A k \in CallsOfBatch(dc.batch_id) : log[k].total < Len(channels)

\* C16: a step of delete_cmd changes neither table, a step of broadcast_cmd does
\* not change the channels table, a change of the channels table leaves the
\* broadcasts table alone, and every step keeps the member rows there are,
\* unaltered and in place, adding rows at most.
C16_Frames ==
    [][/\ (dpc' # dpc \/ dc' # dc) => (broadcasts' = broadcasts /\ channels' = channels)
       /\ (bpc' # bpc \/ bc' # bc) => channels' = channels
       /\ channels' # channels => broadcasts' = broadcasts
       /\ Len(broadcasts) <= Len(broadcasts')
       /\ SubSeq(broadcasts', 1, Len(broadcasts)) = broadcasts]_vars

\* C16 witness: a retraction has replied with at least one delete done and one
\* failed, and every member row it went through is still in the store.
C16_Witness ==
    /\ RetractionReplied
    /\ dc.reply.deleted >= 1
    /\ dc.reply.not_found >= 1
    /\ DeleteTargets \subseteq StoredPairs

\* C17: a retraction that runs while a broadcast is in progress or has just ended
\* read either none of the member rows of that broadcast or all of them.
C17_BatchSeenWholeOrNotAtAll ==
    ((dpc = "loop" \/ RetractionReplied) /\ bpc # "idle") =>
        \/ Range(dc.entries) \cap PendingPairs = {}
        \/ PendingPairs \subseteq Range(dc.entries)

\* C17 witness: a retraction is deleting the members of a batch id while a
\* broadcast with the same batch id is between two destinations, with one member
\* row inserted and not yet committed.
C17_Witness ==
    /\ dpc = "loop"
    /\ bpc = "loop"
    /\ bc.i = 2
    /\ Len(bc.channels) = 2
    /\ Len(bc.pending) = 1
    /\ dc.batch_id = bc.batch_id
    /\ Range(dc.entries) \cap PendingPairs = {}

\* C18: in a broadcast call no destination is copied to twice, no two member rows
\* of the call share a destination, and every destination copied to is in the
\* list read at the start of the call.
C18_EachDestinationOnce ==
    bpc # "idle" =>
        /\ \A j, k \in 1..Len(bc.copies) :
              j # k => bc.copies[j].channel_id # bc.copies[k].channel_id
        /\ \A j, k \in 1..Len(bc.pending) :
              j # k => bc.pending[j].channel_id # bc.pending[k].channel_id
        /\ \A k \in 1..Len(bc.copies) : bc.copies[k].channel_id \in Range(bc.channels)

\* C18 witness: a broadcast has replied after at least one copy, and a destination
\* that was registered after its list was read got no copy.
C18_Witness ==
    /\ BroadcastReplied
    /\ bc.copies # <<>>
    /\ \E c \in Range(channels) :
          /\ c \notin Range(bc.channels)
          /\ \A k \in 1..Len(bc.copies) : bc.copies[k].channel_id # c

=============================================================================
